---- MODULE Spec2Model ----
(***************************************************************************)
(* Slickdeal Finder proxy: the /deal-search handler (tool-calling loop,    *)
(* strict-JSON finalizer, fallback envelope) and the SSRF-guarded fetcher  *)
(* safeHttpGet with its host classifier.                                   *)
(*                                                                         *)
(* The repository holds two copies of the script: src/unnamed/part_000     *)
(* (the copy whose loop comment reads "fixed: push assistant msg before    *)
(* tool results") and src/server.js.  They share safeHttpGet and the       *)
(* classifier verbatim and differ in the handler; `variant` says which     *)
(* copy is running.                                                        *)
(***************************************************************************)
EXTENDS Integers, Sequences, FiniteSets, TLC

VARIABLES
    variant,    \* which copy of the script runs: "part_000" or "server.js"
    mode,       \* "handler": a /deal-search request; "fetch": one safeHttpGet call;
                \* "classify": one hostIsSafe call; "pair": two requests in flight
    active,     \* the request whose code is running: 1 or 2
    parked,     \* the locals of the other request, suspended at an await
    apiKey,     \* OPENAI_API_KEY is set
    secret,     \* EXT_SHARED_TOKEN ("" when unset)
    header,     \* req.get("x-ext-token")
    query,      \* req.body.query
    pc,         \* position of the control flow
    step,       \* loop counter of the tool-calling loop
    messages,   \* the conversation history
    toolCalls,  \* tool_calls of the response being processed
    ci,         \* index of the tool call being executed
    issued,     \* ids of every tool call received so far, in order
    nextId,     \* next tool-call id the completion service hands out to this request
    fetchCalls, \* http_get calls the model has asked for in this request
    finalJson,  \* the parsed final answer, or null
    response,   \* what res.status(..).json(..) sent, or NoResponse
    nMain,      \* completion requests made by the loop (r1)
    nCorr,      \* corrective completion requests made (r2)
    lastCompl,  \* parameters of the latest completion request
    lastReply,  \* what the latest completion request returned
    url,        \* safeHttpGet: current url
    maxBytes,   \* safeHttpGet: maxBytes argument
    hops,       \* safeHttpGet: loop counter
    litChecked, \* hostname the literal-name check passed for in this hop
    dnsChecked, \* hostname, answers and verdict of hostIsSafe in this hop
    nreq,       \* fetch() calls made by the current safeHttpGet call
    lastReq,    \* the latest outbound request of the current safeHttpGet call
    lastResp,   \* the terminal response the current safeHttpGet call received
    result      \* value returned by safeHttpGet

fetchVars ==
    <<url, maxBytes, hops, litChecked, dnsChecked, nreq, lastReq, lastResp, result>>
reqVars == <<variant, mode, active, parked, apiKey, secret, header, query>>
loopVars == <<step, messages, toolCalls, ci, issued, nextId, fetchCalls, finalJson, response,
              nMain, nCorr, lastCompl, lastReply>>
vars == <<reqVars, pc, loopVars, fetchVars>>

Min(a, b) == IF a < b THEN a ELSE b

(***************************************************************************)
(* Bounds of the model.                                                    *)
(***************************************************************************)
MaxCalls == 2       \* tool calls carried by one completion response
MaxFetchCalls == 1  \* http_get calls with a parsable url the model makes per request

(***************************************************************************)
(* IP addresses.  An IPv4 address is its four bytes, an IPv6 address the   *)
(* characters of its text form (isPrivateIPv6 tests text prefixes).        *)
(***************************************************************************)
V4(a, b, c, d) == [v |-> 4, b |-> <<a, b, c, d>>, s |-> <<>>]
V6(chars) == [v |-> 6, b |-> <<>>, s |-> chars]

Pub4 == V4(8, 8, 8, 8)
Priv10 == V4(10, 0, 0, 1)
Loop4 == V4(127, 0, 0, 1)
Meta4 == V4(169, 254, 169, 254)
Pub6 == V6(<<"2", "6", "0", "6", ":", ":", "1">>)
Loop6 == V6(<<":", ":", "1">>)
Ula6 == V6(<<"f", "d", "0", "0", ":", ":", "1">>)

startsWith(s, p) == Len(s) >= Len(p) /\ SubSeq(s, 1, Len(p)) = p

isPrivateIPv4(ip) ==
    LET b == ip.b IN
    \/ b[1] = 10
    \/ (b[1] = 172 /\ b[2] >= 16 /\ b[2] <= 31)
    \/ (b[1] = 192 /\ b[2] = 168)
    \/ (b[1] = 169 /\ b[2] = 254)
    \/ b = <<127, 0, 0, 1>>

isPrivateIPv6(ip) ==
    \/ ip.s = <<":", ":", "1">>
    \/ startsWith(ip.s, <<"f", "c">>)
    \/ startsWith(ip.s, <<"f", "d">>)
    \/ startsWith(ip.s, <<"f", "e", "8">>)
    \/ startsWith(ip.s, <<"f", "e", "9">>)
    \/ startsWith(ip.s, <<"f", "e", "a">>)
    \/ startsWith(ip.s, <<"f", "e", "b">>)

isPrivateIP(ip) ==
    IF ip.v = 4 THEN isPrivateIPv4(ip)
    ELSE IF ip.v = 6 THEN isPrivateIPv6(ip)
    ELSE FALSE

\* hostIsSafe satisfied by one public address among the answers
hostIsSafeAnyPublic(a4, a6) ==
    LET ips == a4 \o a6 IN
    IF Len(ips) = 0 THEN TRUE ELSE \E i \in 1..Len(ips) : ~isPrivateIP(ips[i])

\* hostIsSafe refusing a name that has no address
hostIsSafeFailClosed(a4, a6) ==
    LET ips == a4 \o a6 IN
    IF Len(ips) = 0 THEN FALSE ELSE \A i \in 1..Len(ips) : ~isPrivateIP(ips[i])

\* hostIsSafe once resolve4 and resolve6 have answered a4 and a6 (<<>> on error)
hostIsSafe(a4, a6) ==
    LET ips == a4 \o a6 IN
    IF Len(ips) = 0 THEN TRUE ELSE \A i \in 1..Len(ips) : ~isPrivateIP(ips[i])

(***************************************************************************)
(* URLs.  A url is the text handed to `new URL`; here its parse: whether   *)
(* it parses at all, its scheme and its host as a sequence of labels.      *)
(***************************************************************************)
Url(scheme, host) == [valid |-> TRUE, scheme |-> scheme, host |-> host]
BadUrl == [valid |-> FALSE, scheme |-> "", host |-> <<>>]

toLowerCase(label) ==
    CASE label = "LocalHost" -> "localhost"
      [] label = "LOCAL" -> "local"
      [] OTHER -> label

hostLowerOf(host) == [i \in 1..Len(host) |-> toLowerCase(host[i])]

\* hostLower.endsWith("." + tld)
endsWith(host, tld) == Len(host) >= 2 /\ host[Len(host)] = tld

\* blockedLiteral with the exact names only, the two suffix tests left out
blockedLiteralExactOnly(hostLower) ==
    \/ hostLower = <<"localhost">>
    \/ hostLower = <<"0", "0", "0", "0">>
    \/ hostLower = <<"metadata", "google", "internal">>

\* the literal-name denylist of safeHttpGet
blockedLiteral(hostLower) ==
    \/ hostLower = <<"localhost">>
    \/ hostLower = <<"0", "0", "0", "0">>
    \/ endsWith(hostLower, "local")
    \/ endsWith(hostLower, "internal")
    \/ hostLower = <<"metadata", "google", "internal">>

ShopHost == <<"shop", "example">>
CdnHost == <<"cdn", "example">>
LiteralHosts ==
    { <<"localhost">>, <<"LocalHost">>, <<"0", "0", "0", "0">>, <<"printer", "LOCAL">>,
      <<"db", "internal">>, <<"metadata", "google", "internal">> }

(***************************************************************************)
(* The environment: what the model, DNS and the remote servers may do.     *)
(***************************************************************************)
\* urls a call may name
FetchUrls ==
    {Url("https:", h) : h \in {ShopHost, CdnHost, <<"localhost", "">>} \cup LiteralHosts}
    \cup {Url("http:", ShopHost), Url("ftp:", ShopHost), BadUrl}
StartUrls == IF mode = "fetch" THEN FetchUrls ELSE {Url("https:", ShopHost)}
\* addresses on both sides of every edge of the classifier's ranges
RangeEdges4 ==
    {Pub4, Priv10, Loop4, Meta4, V4(11, 0, 0, 1), V4(127, 0, 0, 2), V4(172, 15, 255, 255),
     V4(172, 16, 0, 1), V4(172, 31, 255, 255), V4(172, 32, 0, 1), V4(192, 168, 1, 1),
     V4(192, 169, 0, 1)}
RangeEdges6 ==
    {Pub6, Loop6, Ula6, V6(<<":", ":", "2">>), V6(<<"f", "c", "0", "0", ":", ":", "1">>),
     V6(<<"f", "e", "8", "0", ":", ":", "1">>), V6(<<"f", "e", "b", "f", ":", ":", "1">>),
     V6(<<"f", "e", "c", "0", ":", ":", "1">>), V6(<<"f", "e", "7", "f", ":", ":", "1">>)}
AnswersA4 ==
    IF mode = "fetch" THEN {<<>>, <<Pub4>>, <<Priv10>>, <<Pub4, Loop4>>}
    ELSE IF mode = "classify"
    THEN {<<>>} \cup {<<a>> : a \in RangeEdges4} \cup {<<a, b>> : a, b \in RangeEdges4}
    ELSE {<<Pub4>>, <<Priv10>>}
AnswersA6 ==
    IF mode = "fetch" THEN {<<>>, <<Pub6>>, <<Ula6>>}
    ELSE IF mode = "classify" THEN {<<>>} \cup {<<a>> : a \in RangeEdges6}
    ELSE {<<>>}
NoAddr == [v |-> 0, b |-> <<>>, s |-> <<>>]
\* the transport's own lookup may fail before any request leaves; a fetch made
\* for the handler fails in flight only (FlightErrors), its transport connects
LookupFailures == IF mode = "handler" THEN {} ELSE {NoAddr}
ConnectAddrs ==
    IF mode = "fetch" THEN {Pub4, Priv10, Meta4, Loop6, Pub6}
    ELSE {Pub4}
\* Location headers: absent, absolute, relative to the current url, unparsable
Locations ==
    IF mode = "fetch"
    THEN {[kind |-> "none", to |-> BadUrl], [kind |-> "rel", to |-> BadUrl],
          [kind |-> "bad", to |-> BadUrl]}
         \cup {[kind |-> "abs", to |-> u] :
                 u \in {Url("https:", CdnHost), Url("https:", <<"db", "internal">>),
                        Url("file:", ShopHost)}}
    ELSE {[kind |-> "abs", to |-> Url("https:", ShopHost)]}
Statuses == IF mode = "fetch" THEN {200, 302, 304, 404} ELSE {200, 302}
BodyLens == IF mode = "fetch" THEN {0, 3, 4, 5, 200001} ELSE {4}
ContentTypes == IF mode = "fetch" THEN {"text/html", "image/png", ""} ELSE {"text/html"}
FlightErrors == IF mode = "fetch" THEN {"FetchError", "AbortError"} ELSE {"AbortError"}
\* max_bytes of a tool call; 0 stands for a call that names none
MaxBytesArgs == IF mode = "fetch" THEN {0, 4, 3, 0 - 1, 200001} ELSE {0}


(***************************************************************************)
(* safeHttpGet.                                                            *)
(***************************************************************************)
MaxHops == 5
DefaultMaxBytes == 200000
NoError == "<absent>"
NoCheck == [host |-> <<>>, ips |-> <<>>, safe |-> FALSE, done |-> FALSE, hop |-> 0 - 1]
NoReq == [host |-> <<>>, addr |-> NoAddr, hop |-> 0 - 1, lit |-> <<>>, dns |-> NoCheck]
NoResp == [status |-> 0 - 1, ct |-> "", len |-> 0]
NoResult == [ok |-> FALSE, status |-> 0 - 1, error |-> NoError, textLen |-> 0]
Failure(kind) == [ok |-> FALSE, status |-> 0, error |-> kind, textLen |-> 0]

\* hopVerdict without the test of the scheme
hopVerdictAnyScheme(u) ==
    IF ~u.valid THEN "invalid_url"
    ELSE IF blockedLiteral(hostLowerOf(u.host)) THEN "blocked_host"
    ELSE "pass"

\* the synchronous checks at the head of a hop: URL parse, scheme, literal names
hopVerdict(u) ==
    IF ~u.valid THEN "invalid_url"
    ELSE IF u.scheme # "https:" /\ u.scheme # "http:" THEN "unsupported_protocol"
    ELSE IF blockedLiteral(hostLowerOf(u.host)) THEN "blocked_host"
    ELSE "pass"

isRedirect(status, loc) == status \in {301, 302, 303, 307, 308} /\ loc.kind # "none"

\* new URL(loc, url).toString()
resolveLocation(loc, base) ==
    IF loc.kind = "rel" THEN Url(base.scheme, hostLowerOf(base.host)) ELSE loc.to

\* buf.slice(0, end).byteLength for a buffer of len bytes
sliceLen(len, end) ==
    IF end < 0 THEN (IF len + end < 0 THEN 0 ELSE len + end) ELSE Min(end, len)

\* /text|json|xml|html/i.test(ct)
isTextLike(ct) == ct \in {"text/html", "application/json", "application/xml"}

\* byte length of the text safeHttpGet returns for a terminal response
textLenOf(ct, len, mb) ==
    IF isTextLike(ct) THEN sliceLen(len, Min(mb, len)) ELSE 0

\* the call safeHttpGet(u, mb): its locals at entry
EnterFetch(u, mb) ==
    /\ url' = u
    /\ maxBytes' = mb
    /\ hops' = 0
    /\ litChecked' = <<>>
    /\ dnsChecked' = NoCheck
    /\ nreq' = 0
    /\ lastReq' = NoReq
    /\ lastResp' = NoResp
    /\ result' = NoResult

\* the locals of a call are gone once it has returned
LeaveFetch ==
    /\ url' = BadUrl
    /\ maxBytes' = DefaultMaxBytes
    /\ hops' = 0
    /\ litChecked' = <<>>
    /\ dnsChecked' = NoCheck
    /\ nreq' = 0
    /\ lastReq' = NoReq
    /\ lastResp' = NoResp
    /\ result' = NoResult

Return(r) ==
    /\ result' = r
    /\ pc' = "f_ret"

\* the loop test of safeHttpGet with the ceiling itself allowed
hopsLeftInclusive(h) == h <= MaxHops

\* for (let hops = 0; hops < 5; hops++)
hopsLeft(h) == h < MaxHops

\* loop test, then URL, scheme and literal-name checks of one hop
FetchHop ==
    /\ pc = "f_hop"
    /\ IF ~hopsLeft(hops)
       THEN /\ Return(Failure("too_many_redirects"))
            /\ UNCHANGED <<litChecked, dnsChecked>>
       ELSE /\ dnsChecked' = NoCheck
            /\ IF hopVerdict(url) = "pass"
               THEN /\ litChecked' = url.host
                    /\ pc' = "f_dns"
                    /\ UNCHANGED result
               ELSE /\ litChecked' = <<>>
                    /\ Return(Failure(hopVerdict(url)))
    /\ UNCHANGED <<url, maxBytes, hops, nreq, lastReq, lastResp, reqVars, loopVars>>

\* FetchDns with the classifier run for the first hop only
FetchDnsFirstHopOnly ==
    /\ pc = "f_dns"
    /\ \E a4 \in AnswersA4, a6 \in AnswersA6 :
         IF hops > 0
         THEN pc' = "f_send" /\ UNCHANGED <<result, dnsChecked>>
         ELSE /\ dnsChecked' = [host |-> url.host, ips |-> a4 \o a6,
                                safe |-> hostIsSafe(a4, a6), done |-> TRUE, hop |-> hops]
              /\ IF hostIsSafe(a4, a6)
                 THEN pc' = "f_send" /\ UNCHANGED result
                 ELSE Return(Failure("private_ip_blocked"))
    /\ UNCHANGED <<url, maxBytes, hops, litChecked, nreq, lastReq, lastResp, reqVars, loopVars>>

\* await hostIsSafe(u.hostname): both lookups answer, then the verdict
FetchDns ==
    /\ pc = "f_dns"
    /\ \E a4 \in AnswersA4, a6 \in AnswersA6 :
         /\ dnsChecked' = [host |-> url.host, ips |-> a4 \o a6,
                           safe |-> hostIsSafe(a4, a6), done |-> TRUE, hop |-> hops]
         /\ IF hostIsSafe(a4, a6)
            THEN pc' = "f_send" /\ UNCHANGED result
            ELSE Return(Failure("private_ip_blocked"))
    /\ UNCHANGED <<url, maxBytes, hops, litChecked, nreq, lastReq, lastResp, reqVars, loopVars>>

\* fetch(url, {redirect: "manual"}): the transport resolves the name itself
\* and connects, or fails before any request leaves
FetchSend ==
    /\ pc = "f_send"
    /\ nreq' = nreq + 1
    /\ \E addr \in ConnectAddrs \cup LookupFailures :
         IF addr = NoAddr
         THEN /\ Return(Failure("FetchError"))
              /\ UNCHANGED lastReq
         ELSE /\ lastReq' = [host |-> url.host, addr |-> addr, hop |-> hops,
                             lit |-> litChecked, dns |-> dnsChecked]
              /\ pc' = "f_wait"
              /\ UNCHANGED result
    /\ UNCHANGED <<url, maxBytes, hops, litChecked, dnsChecked, lastResp, reqVars, loopVars>>

\* the response is a redirect with a location: next hop
FetchRedirect ==
    /\ pc = "f_wait"
    /\ \E status \in Statuses, loc \in Locations :
         /\ isRedirect(status, loc)
         /\ IF loc.kind = "bad"
            THEN /\ Return(Failure("TypeError"))
                 /\ UNCHANGED <<url, hops>>
            ELSE /\ url' = resolveLocation(loc, url)
                 /\ hops' = hops + 1
                 /\ pc' = "f_hop"
                 /\ UNCHANGED result
    /\ UNCHANGED <<maxBytes, litChecked, dnsChecked, nreq, lastReq, lastResp, reqVars, loopVars>>

\* any other response is terminal
FetchTerminal ==
    /\ pc = "f_wait"
    /\ \E status \in Statuses, loc \in Locations, ct \in ContentTypes, len \in BodyLens :
         /\ ~isRedirect(status, loc)
         /\ lastResp' = [status |-> status, ct |-> ct, len |-> len]
         /\ Return([ok |-> status >= 200 /\ status <= 299, status |-> status,
                    error |-> NoError, textLen |-> textLenOf(ct, len, maxBytes)])
    /\ UNCHANGED <<url, maxBytes, hops, litChecked, dnsChecked, nreq, lastReq, reqVars,
                   loopVars>>

\* FetchError with the rejection of fetch() left uncaught by safeHttpGet: it
\* reaches the catch of the handler
FetchErrorThrown ==
    /\ pc = "f_wait"
    /\ \E e \in FlightErrors :
         /\ response' = [response EXCEPT !.status = 500, !.kind = "error",
                                           !.error = "server error"]
         /\ pc' = "done"
    /\ UNCHANGED <<step, messages, toolCalls, ci, issued, nextId, fetchCalls, finalJson,
                   nMain, nCorr, lastCompl, lastReply, reqVars, fetchVars>>

\* the call fails in flight: connection reset, TLS error, or the 12 s abort
FetchError ==
    /\ pc = "f_wait"
    /\ \E e \in FlightErrors : Return(Failure(e))
    /\ UNCHANGED <<url, maxBytes, hops, litChecked, dnsChecked, nreq, lastReq, lastResp,
                   reqVars, loopVars>>

FetchStep ==
    \/ FetchHop
    \/ FetchDns
    \/ FetchSend
    \/ FetchRedirect
    \/ FetchTerminal
    \/ FetchError


(***************************************************************************)
(* JSON texts and values.  A completion's content is one of a few texts;   *)
(* JSON.parse is the table below.                                          *)
(***************************************************************************)
JNull == [t |-> "null", v |-> "null"]
ParseError == [t |-> "SyntaxError", v |-> ""]

trim(text) ==
    CASE text = " {\"mode\":\"browsed\"}\n" -> "{\"mode\":\"browsed\"}"
      [] OTHER -> text

JSONparse(text) ==
    CASE text = "{\"mode\":\"browsed\"}" -> [t |-> "object", v |-> text]
      [] text = "[]" -> [t |-> "array", v |-> text]
      [] text = "null" -> JNull
      [] text = "0" -> [t |-> "number", v |-> "0"]
      [] text = "false" -> [t |-> "boolean", v |-> "false"]
      [] text = "\"\"" -> [t |-> "string", v |-> ""]
      [] OTHER -> ParseError

\* !value is false
truthy(value) ==
    CASE value.t = "null" -> FALSE
      [] value.t = "number" -> value.v # "0"
      [] value.t = "boolean" -> value.v # "false"
      [] value.t = "string" -> value.v # ""
      [] OTHER -> TRUE

\* what r1 may say without tool calls, and what r2 may say
Contents ==
    IF mode = "pair" THEN {"{\"mode\":\"browsed\"}", "Here are the deals:"}
    ELSE {"{\"mode\":\"browsed\"}", " {\"mode\":\"browsed\"}\n", "null", "Here are the deals:"}
Contents2 ==
    IF mode = "pair" THEN {"[]", "Sorry, here it is:"} ELSE {"[]", "0", "Sorry, here it is:"}

encodeURIComponent(q) ==
    CASE q = "wireless earbuds" -> "wireless%20earbuds"
      [] OTHER -> q

(***************************************************************************)
(* The /deal-search handler.                                               *)
(***************************************************************************)
BudgetFixed == 8
BudgetServer == 6
StepBudget == IF variant = "part_000" THEN BudgetFixed ELSE BudgetServer

Absent == "<absent>"
Queries == {Absent, "", "wireless earbuds"}
\* EXT_SHARED_TOKEN and the x-ext-token header of the request
Tokens == {<<"", "guess">>, <<"s3cret", Absent>>, <<"s3cret", "guess">>, <<"s3cret", "s3cret">>}
\* status and body length of a failing completion response
UpstreamErrors == IF mode = "pair" THEN {<<429, 800>>} ELSE {<<429, 800>>, <<500, 801>>}
DetailCap == 800
ServerDetailCap == 500
\* lengths of String(e) for an exception thrown by a completion call
ThrowLens == IF mode = "pair" THEN {40} ELSE {40, 501}
\* length of "TypeError: Cannot destructure property 'url' of 'args' as it is null."
DestructureErrorLen == 69

NoEnvelope == [query |-> Absent, mode |-> "", qualified |-> <<>>, borderline |-> <<>>,
               not_qualified |-> <<>>, notes |-> <<>>]
NoResponse == [status |-> 0, kind |-> "none", json |-> JNull, envelope |-> NoEnvelope,
               error |-> "", detailLen |-> 0]

ErrorResponse(status, error, detailLen) ==
    [status |-> status, kind |-> "error", json |-> JNull, envelope |-> NoEnvelope,
     error |-> error, detailLen |-> detailLen]

\* the fallback envelope (generated_at left out: it is the clock)
Fallback(q) ==
    [query |-> q, mode |-> "search_urls", qualified |-> <<>>, borderline |-> <<>>,
     not_qualified |-> <<>>,
     notes |-> << <<"https://www.google.com/search?q=", encodeURIComponent(q),
                    "+price+drop">>,
                  <<"https://www.google.com/search?q=site%3Aslickdeals.net+",
                    encodeURIComponent(q), "">> >>]

\* Finish with "no final result" reported to the client as an error
FinishOrFail(fj) ==
    IF ~truthy(fj)
    THEN ErrorResponse(500, "no result", 0)
    ELSE [status |-> 200, kind |-> "json", json |-> fj, envelope |-> NoEnvelope,
          error |-> "", detailLen |-> 0]

\* the code after the loop: the fallback when finalJson is falsy, else finalJson
Finish(fj) ==
    IF ~truthy(fj)
    THEN [status |-> 200, kind |-> "fallback", json |-> JNull, envelope |-> Fallback(query),
          error |-> "", detailLen |-> 0]
    ELSE [status |-> 200, kind |-> "json", json |-> fj, envelope |-> NoEnvelope,
          error |-> "", detailLen |-> 0]

\* ServerError with the detail left uncut
ServerErrorUncut(len) == ErrorResponse(500, "server error", len)

\* the catch of the handler: res.status(500).json({error: "server error",
\* detail: String(e).slice(0, 500)}), for an exception whose text has len characters
ServerError(len) == ErrorResponse(500, "server error", Min(len, ServerDetailCap))

\* UpstreamFailure with the detail left uncut
UpstreamFailureUncut(status, len) ==
    ErrorResponse(502, IF status = 429 THEN "openai 429" ELSE "openai 500", len)

\* res.status(502).json({error: `openai ${status}`, detail: t.slice(0, 800)})
UpstreamFailure(status, len) ==
    ErrorResponse(502, IF status = 429 THEN "openai 429" ELSE "openai 500",
                  Min(len, DetailCap))

Msg(role, content, calls, id, res) ==
    [role |-> role, content |-> content, calls |-> calls, id |-> id, result |-> res]
SystemMsg(text) == Msg("system", text, <<>>, 0, NoResult)
UserMsg(text) == Msg("user", text, <<>>, 0, NoResult)
AssistantMsg(text, calls) == Msg("assistant", text, calls, 0, NoResult)
ToolMsg(id, res) == Msg("tool", "", <<>>, id, res)

NoCompl == [kind |-> "none", tools |-> FALSE, jsonMode |-> FALSE]
Reply(kind, content, status, len) ==
    [kind |-> kind, content |-> content, status |-> status, len |-> len]
NoReply == Reply("none", "", 0, 0)

\* A tool call: id, function name, and arguments text.  The arguments are
\* "{}"-like object texts carrying url and max_bytes, text that is not JSON,
\* or the JSON text null.
CallShapes ==
    {[name |-> "lookup", args |-> "{}", url |-> BadUrl, mb |-> 0, get |-> FALSE]}
    \cup {[name |-> "http_get", args |-> a, url |-> BadUrl, mb |-> 0, get |-> TRUE] :
            a \in {"{not json", "null"}}
    \cup {[name |-> "http_get", args |-> "{url,max_bytes}", url |-> u, mb |-> m, get |-> TRUE] :
            u \in StartUrls, m \in MaxBytesArgs}

\* JSON.parse(call.function?.arguments || "{}") with the catch: the parsed
\* arguments, {} when the text does not parse
parseArgs(call) ==
    CASE call.args = "{url,max_bytes}" -> [t |-> "object", url |-> call.url, mb |-> call.mb]
      [] call.args = "null" -> [t |-> "null", url |-> BadUrl, mb |-> 0]
      [] OTHER -> [t |-> "object", url |-> BadUrl, mb |-> 0]

\* the http_get calls among a sequence of calls
RECURSIVE gets(_)
gets(cs) == IF cs = <<>> THEN 0 ELSE (IF cs[1].get THEN 1 ELSE 0) + gets(Tail(cs))

\* the tool-call lists a completion may carry, within the bounds
Lookup == [name |-> "lookup", args |-> "{}", url |-> BadUrl, mb |-> 0, get |-> FALSE]

\* http_get of the shop's page with no max_bytes
ShopGet ==
    [name |-> "http_get", args |-> "{url,max_bytes}", url |-> Url("https:", ShopHost),
     mb |-> 0, get |-> TRUE]

\* a call without a function name, its arguments the text null
Nameless == [name |-> Absent, args |-> "null", url |-> BadUrl, mb |-> 0, get |-> FALSE]

\* the tool-call lists a completion may carry, within the bounds: a single
\* call of a tool the proxy does not have (in the first response also a call
\* without a name), or up to MaxCalls calls with an http_get among them.  The
\* http_get calls of a request come in one run of consecutive responses,
\* which may start at any step; a response that follows the run carries a
\* call of an unknown tool or none, and the one after it no tool call.
CallLists(used, burst) ==
    IF mode = "pair"
    THEN {<<Lookup>>} \cup (IF active = 1 /\ nMain = 1 THEN {<<ShopGet>>} ELSE {})
    ELSE (IF used = 0 \/ burst THEN {<<Lookup>>} ELSE {})
         \cup (IF nMain = 1 THEN {<<Nameless>>} ELSE {})
         \cup {cs \in UNION {[1..n -> CallShapes] : n \in 1..MaxCalls} :
                 /\ gets(cs) >= 1
                 /\ used + gets(cs) <= MaxFetchCalls
                 /\ (used = 0 \/ burst)}


\* validate with the query checked before the credential and the token
validateQueryFirst(key, sec, hdr, q) ==
    IF q = Absent \/ q = "" THEN 400
    ELSE IF ~key THEN 500
    ELSE IF sec # "" /\ hdr # sec THEN 403
    ELSE 0

\* the three checks at the head of the handler, in the order of the code:
\* the status to answer, 0 to go on
validate(key, sec, hdr, q) ==
    IF ~key THEN 500
    ELSE IF sec # "" /\ hdr # sec THEN 403
    ELSE IF q = Absent \/ q = "" THEN 400
    ELSE 0

validationError(status) ==
    CASE status = 500 -> "server not configured"
      [] status = 403 -> "forbidden"
      [] OTHER -> "missing query"

\* max_bytes || 200000
orDefault(mb) == IF mb = 0 THEN DefaultMaxBytes ELSE mb

\* part_000 pushes the assistant message it received; server.js does not
pushAssistant(msgs, text, calls) ==
    IF variant = "part_000" THEN Append(msgs, AssistantMsg(text, calls)) ELSE msgs

\* `unknown_tool:${name}`
unknownToolNamed(name) ==
    CASE name = "lookup" -> "unknown_tool:lookup"
      [] name = Absent -> "unknown_tool:undefined"
      [] OTHER -> "unknown_tool:http_get"

\* unknownTool answering with a successful, empty result
unknownToolOk(call) == [ok |-> TRUE, status |-> 0 - 1, error |-> NoError, textLen |-> 0]

\* {ok: false, error: ...} of the else branch of the tool loop
unknownTool(call) ==
    [ok |-> FALSE, status |-> 0 - 1,
     error |-> IF variant = "part_000" THEN "unknown_tool" ELSE unknownToolNamed(call.name),
     textLen |-> 0]

\* answer with a failed result left out of the history
answerOnSuccess(msgs, call, res) ==
    IF res.ok THEN Append(msgs, ToolMsg(call.id, res)) ELSE msgs

\* messages.push({role: "tool", tool_call_id: call.id, content: ...})
answer(msgs, call, res) == Append(msgs, ToolMsg(call.id, res))

\* the two pushes before the corrective request
pushCorrective(msgs, content) ==
    Append(Append(msgs, SystemMsg("Return only a single strict JSON object")),
           AssistantMsg(content, <<>>))

mainRequest == [kind |-> "main", tools |-> TRUE, jsonMode |-> FALSE]
\* correctiveRequest with the tools still offered
correctiveWithTools == [kind |-> "corrective", tools |-> TRUE, jsonMode |-> TRUE]
correctiveRequest == [kind |-> "corrective", tools |-> FALSE, jsonMode |-> TRUE]

Respond(r) ==
    /\ response' = r
    /\ pc' = "done"

\* entry of the handler up to the first await
Validate ==
    /\ pc = "start"
    /\ IF validate(apiKey, secret, header, query) # 0
       THEN /\ Respond(ErrorResponse(validate(apiKey, secret, header, query),
                         validationError(validate(apiKey, secret, header, query)), 0))
            /\ UNCHANGED messages
       ELSE /\ messages' = <<SystemMsg("SYSTEM_PROMPT"), UserMsg(query)>>
            /\ pc' = "loop"
            /\ UNCHANGED response
    /\ UNCHANGED <<step, toolCalls, ci, issued, nextId, fetchCalls, finalJson, nMain, nCorr,
                   lastCompl, lastReply, reqVars, fetchVars>>

\* LoopHead letting the loop run while step <= budget: one request more
LoopHeadOneMore ==
    /\ pc = "loop"
    /\ IF step <= StepBudget
       THEN /\ nMain' = nMain + 1
            /\ lastCompl' = mainRequest
            /\ pc' = "await_r1"
            /\ UNCHANGED response
       ELSE /\ Respond(Finish(finalJson))
            /\ UNCHANGED <<nMain, lastCompl>>
    /\ UNCHANGED <<step, messages, toolCalls, ci, issued, nextId, fetchCalls, finalJson,
                   nCorr, lastReply, reqVars, fetchVars>>

\* for (step < budget): post the history with the tools; past the budget,
\* the code after the loop
LoopHead ==
    /\ pc = "loop"
    /\ IF step < StepBudget
       THEN /\ nMain' = nMain + 1
            /\ lastCompl' = mainRequest
            /\ pc' = "await_r1"
            /\ UNCHANGED response
       ELSE /\ Respond(Finish(finalJson))
            /\ UNCHANGED <<nMain, lastCompl>>
    /\ UNCHANGED <<step, messages, toolCalls, ci, issued, nextId, fetchCalls, finalJson,
                   nCorr, lastReply, reqVars, fetchVars>>

\* a completion call rejects, or its body is no JSON: the catch of the handler
ComplThrows ==
    /\ pc \in {"await_r1", "await_r2"}
    /\ \E len \in ThrowLens :
         /\ lastReply' = Reply("throw", "", 0, len)
         /\ Respond(ServerError(len))
    /\ UNCHANGED <<step, messages, toolCalls, ci, issued, nextId, fetchCalls, finalJson,
                   nMain, nCorr, lastCompl, reqVars, fetchVars>>

\* !r1.ok, !r2.ok
ComplNotOk ==
    /\ pc \in {"await_r1", "await_r2"}
    /\ \E e \in UpstreamErrors :
         /\ lastReply' = Reply("error", "", e[1], e[2])
         /\ Respond(UpstreamFailure(e[1], e[2]))
    /\ UNCHANGED <<step, messages, toolCalls, ci, issued, nextId, fetchCalls, finalJson,
                   nMain, nCorr, lastCompl, reqVars, fetchVars>>

\* r1 carries tool calls
R1ToolCalls ==
    /\ pc = "await_r1"
    /\ \E cs \in CallLists(fetchCalls, toolCalls # <<>> /\ gets(toolCalls) >= 1) :
         LET calls == [i \in 1..Len(cs) |->
                         [id |-> nextId + i - 1, name |-> cs[i].name, args |-> cs[i].args,
                          url |-> cs[i].url, mb |-> cs[i].mb, get |-> cs[i].get]]
             ids == [i \in 1..Len(cs) |-> nextId + i - 1]
         IN /\ messages' = pushAssistant(messages, "", ids)
            /\ toolCalls' = calls
            /\ issued' = issued \o ids
            /\ nextId' = nextId + Len(cs)
            /\ fetchCalls' = fetchCalls + gets(cs)
    /\ ci' = 1
    /\ pc' = "tools"
    /\ lastReply' = Reply("tools", "", 200, 0)
    /\ UNCHANGED <<step, finalJson, response, nMain, nCorr, lastCompl, reqVars, fetchVars>>

\* NextCall with the loop counter left alone on `continue`
NextCallUncounted ==
    IF ci + 1 > Len(toolCalls)
    THEN /\ pc' = "loop"
         /\ UNCHANGED <<ci, step>>
    ELSE /\ ci' = ci + 1
         /\ pc' = "tools"
         /\ UNCHANGED step

\* after the answer to call ci: the next call, or `continue`
NextCall ==
    IF ci + 1 > Len(toolCalls)
    THEN /\ step' = step + 1
         /\ pc' = "loop"
         /\ UNCHANGED ci
    ELSE /\ ci' = ci + 1
         /\ pc' = "tools"
         /\ UNCHANGED step

\* the calls taken from the last one backwards
callAtReversed(calls, i) == calls[Len(calls) + 1 - i]

\* the i-th call `for (const call of toolCalls)` visits
callAt(calls, i) == calls[i]

\* one iteration of `for (const call of toolCalls)` up to its await
ExecTool ==
    /\ pc = "tools"
    /\ LET call == callAt(toolCalls, ci)
           args == parseArgs(call)
       IN IF call.name = "http_get"
          THEN IF args.t = "null"
               THEN \* const { url, max_bytes } = null throws a TypeError
                    /\ Respond(ServerError(DestructureErrorLen))
                    /\ UNCHANGED <<messages, step, ci, fetchVars>>
               ELSE /\ EnterFetch(args.url, orDefault(args.mb))
                    /\ pc' = "f_hop"
                    /\ UNCHANGED <<messages, step, ci, response>>
          ELSE /\ messages' = answer(messages, call, unknownTool(call))
               /\ NextCall
               /\ UNCHANGED <<response, fetchVars>>
    /\ UNCHANGED <<toolCalls, issued, nextId, fetchCalls, finalJson, nMain, nCorr, lastCompl,
                   lastReply, reqVars>>

\* safeHttpGet has returned: push its result
ToolReturn ==
    /\ pc = "f_ret"
    /\ mode \in {"handler", "pair"}
    /\ messages' = answer(messages, callAt(toolCalls, ci), result)
    /\ NextCall
    /\ LeaveFetch
    /\ UNCHANGED <<toolCalls, issued, nextId, fetchCalls, finalJson, response, nMain, nCorr,
                   lastCompl, lastReply, reqVars>>

\* R1Final without the `break` after a parsed answer: the loop goes round again
R1FinalNoBreak ==
    /\ pc = "await_r1"
    /\ \E text \in Contents :
         LET content == trim(text)
             pushed == pushAssistant(messages, text, <<>>)
         IN /\ lastReply' = Reply("final", text, 200, 0)
            /\ IF JSONparse(content) # ParseError
               THEN /\ finalJson' = JSONparse(content)
                    /\ messages' = pushed
                    /\ pc' = "loop"
                    /\ UNCHANGED <<nCorr, lastCompl, response>>
               ELSE /\ messages' = pushCorrective(pushed, content)
                    /\ nCorr' = nCorr + 1
                    /\ lastCompl' = correctiveRequest
                    /\ pc' = "await_r2"
                    /\ UNCHANGED <<finalJson, response>>
    /\ UNCHANGED <<step, toolCalls, ci, issued, nextId, fetchCalls, nMain, reqVars, fetchVars>>

\* r1 carries no tool call: parse, or ask once more
R1Final ==
    /\ pc = "await_r1"
    /\ \E text \in Contents :
         LET content == trim(text)
             pushed == pushAssistant(messages, text, <<>>)
         IN /\ lastReply' = Reply("final", text, 200, 0)
            /\ IF JSONparse(content) # ParseError
               THEN /\ finalJson' = JSONparse(content)
                    /\ messages' = pushed
                    /\ Respond(Finish(JSONparse(content)))
                    /\ UNCHANGED <<nCorr, lastCompl>>
               ELSE /\ messages' = pushCorrective(pushed, content)
                    /\ nCorr' = nCorr + 1
                    /\ lastCompl' = correctiveRequest
                    /\ pc' = "await_r2"
                    /\ UNCHANGED <<finalJson, response>>
    /\ UNCHANGED <<step, toolCalls, ci, issued, nextId, fetchCalls, nMain, reqVars, fetchVars>>

\* r2 answers: parse, then the code after the loop either way
R2Answer ==
    /\ pc = "await_r2"
    /\ \E text \in Contents2 :
         LET parsed == JSONparse(trim(text))
             fj == IF parsed # ParseError THEN parsed ELSE finalJson
         IN /\ lastReply' = Reply("final", text, 200, 0)
            /\ finalJson' = fj
            /\ Respond(Finish(fj))
    /\ UNCHANGED <<step, messages, toolCalls, ci, issued, nextId, fetchCalls, nMain, nCorr,
                   lastCompl, reqVars, fetchVars>>

HandlerStep ==
    \/ Validate
    \/ LoopHead
    \/ ComplThrows
    \/ ComplNotOk
    \/ R1ToolCalls
    \/ ExecTool
    \/ ToolReturn
    \/ R1Final
    \/ R2Answer

(***************************************************************************)
(* Specifications.                                                         *)
(***************************************************************************)
(***************************************************************************)
(* Two requests in flight.  Node runs one handler invocation at a time and *)
(* switches between them only where one awaits.  What an invocation owns   *)
(* are its req/res and the variables declared inside the handler and       *)
(* inside safeHttpGet; the module-level constants and the completion       *)
(* service are common to both.                                             *)
(***************************************************************************)
\* the variables one invocation of the handler owns
locals ==
    [header |-> header, query |-> query, pc |-> pc, step |-> step, messages |-> messages,
     toolCalls |-> toolCalls, ci |-> ci, issued |-> issued, nextId |-> nextId,
     fetchCalls |-> fetchCalls,
     finalJson |-> finalJson, response |-> response, nMain |-> nMain, nCorr |-> nCorr,
     lastCompl |-> lastCompl, lastReply |-> lastReply, url |-> url, maxBytes |-> maxBytes,
     hops |-> hops, litChecked |-> litChecked, dnsChecked |-> dnsChecked, nreq |-> nreq,
     lastReq |-> lastReq, lastResp |-> lastResp, result |-> result]

Blank(at, hdr, q, firstId) ==
    [header |-> hdr, query |-> q, pc |-> at, step |-> 0, messages |-> <<>>,
     toolCalls |-> <<>>, ci |-> 0, issued |-> <<>>, nextId |-> firstId, fetchCalls |-> 0,
     finalJson |-> JNull, response |-> NoResponse, nMain |-> 0, nCorr |-> 0,
     lastCompl |-> NoCompl, lastReply |-> NoReply, url |-> BadUrl,
     maxBytes |-> DefaultMaxBytes, hops |-> 0, litChecked |-> <<>>, dnsChecked |-> NoCheck,
     nreq |-> 0, lastReq |-> NoReq, lastResp |-> NoResp, result |-> NoResult]
\* a request that has arrived and not started, the ids of its tool calls
\* starting at firstId (the service never hands out an id twice); no second
\* request
Fresh(hdr, q, firstId) == Blank("start", hdr, q, firstId)
NotParked == Blank("none", Absent, Absent, 1)

\* where an invocation can be suspended: before it starts, at an await, after
\* it has responded
SuspensionPoints == {"start", "await_r1", "await_r2", "f_dns", "f_wait", "done"}

\* the history kept in one module-level array that every invocation uses
sharedHistory(req) == messages

\* `const messages = [...]` inside the handler: each invocation has its own
historyOf(req) == req.messages

\* the running invocation is suspended and the other one resumes
Switch ==
    /\ mode = "pair"
    /\ pc \in SuspensionPoints
    /\ parked.pc # "done"
    /\ active' = 3 - active
    /\ parked' = locals
    /\ messages' = historyOf(parked)
    /\ header' = parked.header
    /\ query' = parked.query
    /\ pc' = parked.pc
    /\ step' = parked.step
    /\ toolCalls' = parked.toolCalls
    /\ ci' = parked.ci
    /\ issued' = parked.issued
    /\ nextId' = parked.nextId
    /\ fetchCalls' = parked.fetchCalls
    /\ finalJson' = parked.finalJson
    /\ response' = parked.response
    /\ nMain' = parked.nMain
    /\ nCorr' = parked.nCorr
    /\ lastCompl' = parked.lastCompl
    /\ lastReply' = parked.lastReply
    /\ url' = parked.url
    /\ maxBytes' = parked.maxBytes
    /\ hops' = parked.hops
    /\ litChecked' = parked.litChecked
    /\ dnsChecked' = parked.dnsChecked
    /\ nreq' = parked.nreq
    /\ lastReq' = parked.lastReq
    /\ lastResp' = parked.lastResp
    /\ result' = parked.result
    /\ UNCHANGED <<variant, mode, apiKey, secret>>

IdleLoop ==
    /\ step = 0
    /\ messages = <<>>
    /\ toolCalls = <<>>
    /\ ci = 0
    /\ issued = <<>>
    /\ nextId = 1
    /\ fetchCalls = 0
    /\ finalJson = JNull
    /\ response = NoResponse
    /\ nMain = 0
    /\ nCorr = 0
    /\ lastCompl = NoCompl
    /\ lastReply = NoReply

\* a /deal-search request arrives
Init ==
    /\ variant \in {"part_000", "server.js"}
    /\ mode = "handler"
    /\ active = 1
    /\ parked = NotParked
    /\ apiKey \in BOOLEAN
    /\ \E t \in Tokens : secret = t[1] /\ header = t[2]
    /\ query \in Queries
    /\ pc = "start"
    /\ IdleLoop
    /\ url = BadUrl
    /\ maxBytes = DefaultMaxBytes
    /\ hops = 0
    /\ litChecked = <<>>
    /\ dnsChecked = NoCheck
    /\ nreq = 0
    /\ lastReq = NoReq
    /\ lastResp = NoResp
    /\ result = NoResult

Next == HandlerStep \/ FetchStep

Spec == Init /\ [][Next]_vars

\* every await settles: a pending completion request, lookup or fetch returns
\* or fails, and synchronous code runs on
SpecLive == Spec /\ WF_vars(Next)

\* one call safeHttpGet(url, max_bytes || 200000) on its own
InitFetch ==
    /\ variant \in {"part_000", "server.js"}
    /\ mode = "fetch"
    /\ active = 1
    /\ parked = NotParked
    /\ apiKey = TRUE
    /\ secret = ""
    /\ header = Absent
    /\ query = "wireless earbuds"
    /\ pc = "f_hop"
    /\ IdleLoop
    /\ url \in FetchUrls
    /\ maxBytes \in {orDefault(m) : m \in {0, 4, 3, 0 - 1, 200001}}
    /\ hops = 0
    /\ litChecked = <<>>
    /\ dnsChecked = NoCheck
    /\ nreq = 0
    /\ lastReq = NoReq
    /\ lastResp = NoResp
    /\ result = NoResult

NextFetch == FetchStep

SpecFetch == InitFetch /\ [][NextFetch]_vars

\* hostIsSafe alone: one lookup of a name that passed the literal checks,
\* answered with addresses from both sides of every range edge
InitClassify ==
    /\ variant \in {"part_000", "server.js"}
    /\ mode = "classify"
    /\ active = 1
    /\ parked = NotParked
    /\ apiKey = TRUE
    /\ secret = ""
    /\ header = Absent
    /\ query = "wireless earbuds"
    /\ pc = "f_dns"
    /\ IdleLoop
    /\ url \in {Url("https:", ShopHost), Url("http:", CdnHost)}
    /\ maxBytes = DefaultMaxBytes
    /\ hops = 0
    /\ litChecked = url.host
    /\ dnsChecked = NoCheck
    /\ nreq = 0
    /\ lastReq = NoReq
    /\ lastResp = NoResp
    /\ result = NoResult

NextClassify == FetchDns

SpecClassify == InitClassify /\ [][NextClassify]_vars

\* two /deal-search requests arrive, the second with another query or none
InitPair ==
    /\ variant \in {"part_000", "server.js"}
    /\ mode = "pair"
    /\ active = 1
    /\ parked \in {Fresh(Absent, q, 101) : q \in {"earbuds", ""}}
    /\ apiKey = TRUE
    /\ secret = ""
    /\ header = "guess"
    /\ query = "wireless earbuds"
    /\ pc = "start"
    /\ IdleLoop
    /\ url = BadUrl
    /\ maxBytes = DefaultMaxBytes
    /\ hops = 0
    /\ litChecked = <<>>
    /\ dnsChecked = NoCheck
    /\ nreq = 0
    /\ lastReq = NoReq
    /\ lastResp = NoResp
    /\ result = NoResult

NextPair == HandlerStep \/ FetchStep \/ Switch

SpecPair == InitPair /\ [][NextPair]_vars


(***************************************************************************)
(* Properties.                                                             *)
(***************************************************************************)
\* the private and internal ranges: 10/8, 172.16/12, 192.168/16, 169.254/16,
\* 127.0.0.1, ::1, fc and fd, fe8 to feb
PrivateRange(ip) ==
    IF ip.v = 4
    THEN \/ ip.b[1] = 10
         \/ ip.b[1] = 172 /\ ip.b[2] \in 16..31
         \/ ip.b[1] = 192 /\ ip.b[2] = 168
         \/ ip.b[1] = 169 /\ ip.b[2] = 254
         \/ ip.b = <<127, 0, 0, 1>>
    ELSE \/ ip.s = <<":", ":", "1">>
         \/ Len(ip.s) >= 2 /\ ip.s[1] = "f" /\ ip.s[2] \in {"c", "d"}
         \/ Len(ip.s) >= 3 /\ ip.s[1] = "f" /\ ip.s[2] = "e" /\ ip.s[3] \in {"8", "9", "a", "b"}

Awaiting == pc \in {"await_r1", "await_r2"}
ToolAnswers(id) == {i \in DOMAIN messages : messages[i].role = "tool" /\ messages[i].id = id}
\* the loop ran out of steps: every request was answered with tool calls
Exhausted == pc = "done" /\ nMain > 0 /\ step = nMain
ParsedReply == JSONparse(trim(lastReply.content))

\* C1: no outbound request of safeHttpGet is ever sent to an address in a
\* private or internal range, whatever DNS and the remote servers do.
C1_NoRequestToPrivateAddress ==
    lastReq # NoReq => ~PrivateRange(lastReq.addr)

\* C2: every outbound request, first hop or redirect hop, follows a passing
\* literal-name check and a passing hostIsSafe check made in that hop for that
\* hop's host; and a hop whose host resolves to a private address returns
\* private_ip_blocked with no request sent in that hop.
C2_EveryHopChecked ==
    /\ lastReq # NoReq =>
         /\ lastReq.lit = lastReq.host
         /\ ~blockedLiteral(hostLowerOf(lastReq.host))
         /\ lastReq.dns.done
         /\ lastReq.dns.host = lastReq.host
         /\ lastReq.dns.hop = lastReq.hop
         /\ lastReq.dns.safe
         /\ \A i \in 1..Len(lastReq.dns.ips) : ~PrivateRange(lastReq.dns.ips[i])
    /\ (dnsChecked.done /\ \E i \in 1..Len(dnsChecked.ips) : PrivateRange(dnsChecked.ips[i])) =>
         /\ pc = "f_ret"
         /\ result = Failure("private_ip_blocked")
         /\ lastReq.hop < hops

\* a redirect from a checked host to a host that resolves to a private address,
\* blocked at the second hop
C2_Witness ==
    /\ pc = "f_ret"
    /\ hops = 1
    /\ result.error = "private_ip_blocked"
    /\ lastReq.hop = 0
    /\ lastReq.host # url.host
    /\ nreq = 1

\* C3: at the moment of every completion request, each tool call received so
\* far is answered in the history by exactly one tool message with its id.
C3_EachCallAnsweredOnce ==
    Awaiting => \A k \in 1..Len(issued) : Cardinality(ToolAnswers(issued[k])) = 1

C3_Witness ==
    /\ pc = "await_r1"
    /\ Len(issued) >= 3
    /\ \E i \in DOMAIN messages :
         messages[i].role = "tool" /\ messages[i].result.error = "private_ip_blocked"

\* C4: in every history submitted to the completion service, each tool message
\* is preceded by the assistant message that carries its tool_call_id, with
\* only tool messages in between.
C4_ToolFollowsItsAssistant ==
    Awaiting =>
      \A i \in DOMAIN messages :
        messages[i].role = "tool" =>
          \E j \in 1..(i - 1) :
            /\ messages[j].role = "assistant"
            /\ \E k \in DOMAIN messages[j].calls : messages[j].calls[k] = messages[i].id
            /\ \A m \in (j + 1)..(i - 1) : messages[m].role = "tool"

\* C5: when every completion response carries tool calls, the handler makes
\* exactly 8 completion requests, then answers 200 with the fallback envelope.
C5_BudgetIsEight ==
    Exhausted =>
      /\ nMain = 8
      /\ nCorr = 0
      /\ response.status = 200
      /\ response.kind = "fallback"

\* C6: a first answer without tool calls that does not parse is followed by
\* exactly one corrective request, in json_object mode without the tools,
\* after one corrective system message and one echo of the content; no
\* completion request follows it.
C6_OneCorrectiveRequest ==
    /\ nCorr <= 1
    /\ (pc = "done" /\ nCorr = 0 /\ lastReply.kind = "final") => ParsedReply # ParseError
    /\ pc = "await_r2" =>
         /\ nCorr = 1
         /\ lastReply.kind = "final"
         /\ ParsedReply = ParseError
         /\ Len(messages) >= 2
         /\ messages[Len(messages) - 1].role = "system"
         /\ messages[Len(messages)] = AssistantMsg(trim(lastReply.content), <<>>)
         /\ Cardinality({i \in DOMAIN messages : messages[i].role = "system"}) = 2
    /\ nCorr = 1 =>
         /\ pc \in {"await_r2", "done"}
         /\ nMain = step + 1
         /\ lastCompl.kind = "corrective"
         /\ lastCompl.jsonMode
         /\ ~lastCompl.tools

C6_Witness ==
    /\ pc = "done"
    /\ nCorr = 1
    /\ nMain = 3
    /\ lastReply.kind = "final"
    /\ response.kind = "json"

\* C7: a completion response without tool calls whose content parses as JSON
\* ends the request with status 200 and a body equal to the parsed value, with
\* no corrective request and without the fallback envelope.
C7_ParsedValueIsTheBody ==
    (pc = "done" /\ nCorr = 0 /\ lastReply.kind = "final" /\ ParsedReply # ParseError) =>
      /\ response.status = 200
      /\ response.kind = "json"
      /\ response.json = ParsedReply

\* C8: when no valid JSON is obtained (both answers fail to parse, or the
\* budget is exhausted) the handler answers 200 with the fallback envelope:
\* the request's query, mode search_urls, empty buckets, two notes built from
\* the query.
C8_FallbackEnvelope ==
    (\/ Exhausted
     \/ pc = "done" /\ nCorr = 1 /\ lastReply.kind = "final" /\ ParsedReply = ParseError) =>
      /\ response.status = 200
      /\ response.kind = "fallback"
      /\ response.envelope.query = query
      /\ query = "wireless earbuds"
      /\ response.envelope.mode = "search_urls"
      /\ response.envelope.qualified = <<>>
      /\ response.envelope.borderline = <<>>
      /\ response.envelope.not_qualified = <<>>
      /\ response.envelope.notes =
           << <<"https://www.google.com/search?q=", "wireless%20earbuds", "+price+drop">>,
              <<"https://www.google.com/search?q=site%3Aslickdeals.net+",
                "wireless%20earbuds", "">> >>

C8_Witness ==
    /\ pc = "done"
    /\ nCorr = 1
    /\ lastReply.kind = "final"
    /\ ParsedReply = ParseError
    /\ response.kind = "fallback"

\* C9: a completion request, main or corrective, that returns a non-success
\* status ends the request with 502, error "openai <status>" and a detail of
\* at most 800 characters; the response ends the handler.
C9_UpstreamFailureIs502 ==
    /\ lastReply.kind = "error" =>
         /\ pc = "done"
         /\ response.status = 502
         /\ response.kind = "error"
         /\ lastReply.status = 429 => response.error = "openai 429"
         /\ lastReply.status = 500 => response.error = "openai 500"
         /\ response.detailLen <= 800
         /\ response.detailLen <= lastReply.len
         /\ lastReply.len <= 800 => response.detailLen = lastReply.len
    /\ response # NoResponse => pc = "done"

C9_Witness ==
    /\ pc = "done"
    /\ lastReply.kind = "error"
    /\ lastReply.len > 800
    /\ nCorr = 1
    /\ response.status = 502

\* C10: 500 without the credential, else 403 when a configured secret differs
\* from the header, else 400 without a query; none of the three makes a
\* completion request or a fetch; an empty secret disables the token check.
C10_ValidationOrder ==
    /\ pc # "start" =>
         /\ ~apiKey => response.status = 500 /\ response.error = "server not configured"
         /\ (apiKey /\ secret # "" /\ header # secret) =>
              response.status = 403 /\ response.error = "forbidden"
         /\ (apiKey /\ (secret = "" \/ header = secret) /\ query \in {Absent, ""}) =>
              response.status = 400 /\ response.error = "missing query"
         /\ (apiKey /\ secret = "" /\ query \notin {Absent, ""}) =>
              response.status \notin {400, 403}
    /\ (~apiKey \/ (secret # "" /\ header # secret) \/ query \in {Absent, ""}) =>
         /\ pc \in {"start", "done"}
         /\ nMain = 0
         /\ nCorr = 0
         /\ nreq = 0
         /\ lastReq = NoReq
         /\ messages = <<>>

\* a request with neither a matching token nor a query: the token decides
C10_Witness ==
    /\ pc = "done"
    /\ apiKey
    /\ secret # ""
    /\ header # secret
    /\ query = Absent
    /\ response.status = 403

\* the names the denylist is said to cover, compared without regard to case
LiteralName(host) ==
    LET h == hostLowerOf(host) IN
    \/ h \in {<<"localhost">>, <<"0", "0", "0", "0">>, <<"metadata", "google", "internal">>}
    \/ Len(h) >= 2 /\ h[Len(h)] \in {"local", "internal"}

\* C11: a hop, the first or a redirect hop, whose url is http(s) with a host
\* on the literal denylist makes safeHttpGet return blocked_host with no DNS
\* lookup made and no request sent in that hop.
C11_LiteralHostsBlocked ==
    (/\ url.valid
     /\ url.scheme \in {"http:", "https:"}
     /\ LiteralName(url.host)
     /\ hops < MaxHops
     /\ pc \in {"f_dns", "f_send", "f_wait", "f_ret"}) =>
      /\ pc = "f_ret"
      /\ result = Failure("blocked_host")
      /\ dnsChecked = NoCheck
      /\ lastReq.hop < hops
      /\ nreq = hops

\* a redirect from a checked host to db.internal, blocked at the second hop
C11_Witness ==
    /\ pc = "f_ret"
    /\ hops = 1
    /\ url.host = <<"db", "internal">>
    /\ result.error = "blocked_host"
    /\ nreq = 1
    /\ lastReq.host = ShopHost

\* C12: when the lookups of a name yield at least one address, hostIsSafe
\* answers unsafe if some address lies in a private or internal range and safe
\* if none does; one private address among public ones makes the name unsafe.
C12_UnsafeIffSomePrivate ==
    (dnsChecked.done /\ Len(dnsChecked.ips) > 0) =>
      /\ dnsChecked.safe <=> \A i \in 1..Len(dnsChecked.ips) : ~PrivateRange(dnsChecked.ips[i])
      /\ ~dnsChecked.safe <=> (pc = "f_ret" /\ result = Failure("private_ip_blocked"))
      /\ dnsChecked.safe <=> pc = "f_send"

\* a public address first, a private one second, a public IPv6 address last
C12_Witness ==
    /\ dnsChecked.done
    /\ dnsChecked.ips = <<Pub4, V4(172, 31, 255, 255), Pub6>>
    /\ ~dnsChecked.safe
    /\ result.error = "private_ip_blocked"

\* C13: one call of safeHttpGet sends at most 5 requests; a terminal response
\* after four redirects is what the call returns; a fifth redirect with a
\* location makes the call return too_many_redirects with no sixth request.
C13_HopCeiling ==
    /\ nreq <= 5
    /\ nreq <= hops + 1
    /\ hops <= 5
    /\ result.error = "too_many_redirects" <=> (hops = 5 /\ pc = "f_ret")
    /\ hops = 5 =>
         /\ pc \in {"f_hop", "f_ret"}
         /\ nreq = 5
         /\ lastReq.hop = 4
         /\ lastResp = NoResp
    /\ (pc = "f_ret" /\ lastResp # NoResp) =>
         /\ hops <= 4
         /\ nreq = hops + 1
         /\ lastReq.hop = hops
         /\ result.error = NoError
         /\ result.status = lastResp.status

\* four redirects, then a 200 answered to the fifth request
C13_Witness ==
    /\ pc = "f_ret"
    /\ hops = 4
    /\ nreq = 5
    /\ lastResp.status = 200
    /\ result.ok
    /\ result.status = 200

\* C14: for every max_bytes a call is made with and every body length, the
\* text returned for a textual terminal response has exactly
\* min(max_bytes, body length) bytes, and never more than max_bytes.
C14_BodyCutAtMaxBytes ==
    (pc = "f_ret" /\ lastResp # NoResp /\ isTextLike(lastResp.ct)) =>
      /\ result.textLen = Min(maxBytes, lastResp.len)
      /\ result.textLen <= maxBytes

\* C15: the text a call of safeHttpGet returns never exceeds a fixed ceiling
\* (the default, the only size the code names), whatever max_bytes the tool
\* call supplied.
C15_MaxBytesHasCeiling ==
    pc = "f_ret" => result.textLen <= DefaultMaxBytes

\* C16: every value safeHttpGet returns is either ok with a status, a body
\* and no error, or not ok with an error kind; whatever the status of the
\* terminal response, a result that is not ok carries an error.
C16_OkOrError ==
    pc = "f_ret" =>
      \/ result.ok /\ result.status \in 200..299 /\ result.error = NoError
      \/ ~result.ok /\ result.error # NoError

\* the tool messages of the history that answer call k of the latest response
AnswersTo(k) == {messages[i] : i \in ToolAnswers(toolCalls[k].id)}
\* the loop over the latest response's tool calls has gone past call k
PastCall(k) == k < ci \/ pc \in {"loop", "await_r1", "await_r2", "done"}

\* C17: whatever the arguments text of a tool call, handling it never ends the
\* request: arguments that are no JSON object count as empty, exactly one tool
\* message with the call's id is appended, and the loop goes on (a request
\* that ends after a response with tool calls ends by exhausting its budget).
C17_ArgumentsNeverCrash ==
    /\ (pc = "done" /\ lastReply.kind = "tools") =>
         /\ response.status = 200
         /\ step = StepBudget
    /\ \A k \in DOMAIN toolCalls :
         PastCall(k) =>
           /\ Cardinality(ToolAnswers(toolCalls[k].id)) = 1
           /\ (toolCalls[k].name = "http_get" /\ toolCalls[k].args \in {"{not json", "null"}) =>
                \A m \in AnswersTo(k) : m.result = Failure("invalid_url")

\* call k of the latest response has been dealt with (a request that died in
\* the middle of the tool loop dealt with the calls before the fatal one only)
Answered(k) ==
    \/ k < ci
    \/ pc \in {"loop", "await_r1", "await_r2"}
    \/ pc = "done" /\ (lastReply.kind # "tools" \/ response.status = 200)
\* what the answers to the latest response's calls to unknown tools look like:
\* none before the call's turn, then one tool message with its id and a failed
\* result whose error is errorOf[name]; and no fetch runs on behalf of such a call
UnknownToolsAnswered(errorOf) ==
    /\ \A k \in DOMAIN toolCalls :
         toolCalls[k].name # "http_get" =>
           /\ Answered(k) => Cardinality(ToolAnswers(toolCalls[k].id)) = 1
           /\ (pc = "tools" /\ k >= ci) => ToolAnswers(toolCalls[k].id) = {}
           /\ \A m \in AnswersTo(k) :
                /\ ~m.result.ok
                /\ m.result.error = errorOf[toolCalls[k].name]
    /\ pc \in {"f_hop", "f_dns", "f_send", "f_wait", "f_ret"} => toolCalls[ci].name = "http_get"

IdsOf(n) == IF n = 1 THEN 1..100 ELSE 101..200
\* the response a handler invocation with locals r sends when it runs alone:
\* a function of its own header and query and of the answers it received
AloneResponse(r) ==
    LET parsed == JSONparse(trim(r.lastReply.content)) IN
    CASE r.lastReply.kind = "none" ->
           ErrorResponse(validate(apiKey, secret, r.header, r.query),
                         validationError(validate(apiKey, secret, r.header, r.query)), 0)
      [] r.lastReply.kind = "throw" -> ServerError(r.lastReply.len)
      [] r.lastReply.kind = "error" -> UpstreamFailure(r.lastReply.status, r.lastReply.len)
      [] r.lastReply.kind = "final" /\ parsed # ParseError /\ truthy(parsed) ->
           [status |-> 200, kind |-> "json", json |-> parsed, envelope |-> NoEnvelope,
            error |-> "", detailLen |-> 0]
      [] OTHER ->
           [status |-> 200, kind |-> "fallback", json |-> JNull,
            envelope |-> Fallback(r.query), error |-> "", detailLen |-> 0]
\* the history and the counter of request n, with locals r, hold what that
\* request put there and nothing else
Untouched(r, n) ==
    /\ r.messages # <<>> =>
         /\ Len(r.messages) >= 2
         /\ r.messages[1].role = "system"
         /\ r.messages[2] = UserMsg(r.query)
    /\ \A i \in DOMAIN r.messages :
         /\ r.messages[i].role = "user" => i = 2
         /\ r.messages[i].role = "tool" =>
              /\ r.messages[i].id \in IdsOf(n)
              /\ \E k \in DOMAIN r.issued : r.issued[k] = r.messages[i].id
         /\ \A k \in DOMAIN r.messages[i].calls : r.messages[i].calls[k] \in IdsOf(n)
    /\ Cardinality({i \in DOMAIN r.messages : r.messages[i].role = "tool"}) =
         (IF r.pc \in {"tools", "f_hop", "f_dns", "f_send", "f_wait", "f_ret"}
          THEN Len(r.issued) - Len(r.toolCalls) + r.ci - 1 ELSE Len(r.issued))
    /\ r.step <= r.nMain
    /\ r.nMain <= r.step + 1
    /\ r.step = Len(r.issued) - (IF r.pc \in {"tools", "f_hop", "f_dns", "f_send", "f_wait",
                                               "f_ret"} THEN Len(r.toolCalls) ELSE 0)
    /\ r.pc = "done" => r.response = AloneResponse(r)
    /\ r.pc # "done" => r.response = NoResponse

\* C19: with two requests in flight, switched at their awaits in every
\* possible order, the history and the step counter of each hold only what
\* that request put there, and each response is the one the request would
\* send running alone on the same answers.
C19_RequestsDoNotInterfere ==
    /\ Untouched(locals, active)
    /\ Untouched(parked, 3 - active)

\* the second request between two turns of its loop while the first one waits
\* for the response to a redirected fetch
C19_Witness ==
    /\ active = 2
    /\ pc = "await_r1"
    /\ step = 2
    /\ parked.pc = "f_wait"
    /\ parked.hops = 1
    /\ Len(parked.messages) >= 2
    /\ parked.query # query

\* C20: when every outbound call returns or fails and every completion
\* response carries finitely many tool calls, the request ends with a
\* response, and sends no second one; it makes at most 9 completion requests
\* (8 by the loop, 1 corrective) and at most 5 fetches per tool call.
C20_EndsWithOneResponse ==
    /\ <>(pc = "done" /\ response # NoResponse)
    /\ [](/\ nMain <= 8
          /\ nCorr <= 1
          /\ nMain + nCorr <= 9
          /\ nreq <= 5
          /\ hops <= 5
          /\ pc = "done" <=> response # NoResponse)
    /\ [][response # NoResponse => response' = response]_vars

\* the longest run: eight answers with tool calls, the last fetch redirected
\* five times
C20_Witness ==
    /\ pc = "f_ret"
    /\ nMain = 8
    /\ step = 7
    /\ nreq = 5
    /\ result.error = "too_many_redirects"

\* how many calls of the latest response have been answered
AnsweredSoFar ==
    IF pc \in {"tools", "f_hop", "f_dns", "f_send", "f_wait", "f_ret"} THEN ci - 1
    ELSE IF pc = "done" /\ response.status # 200 THEN ci - 1
    ELSE Len(toolCalls)
\* the history ends with the tool messages of the latest response's turn
InToolTurn ==
    /\ lastReply.kind = "tools"
    /\ pc \in {"tools", "f_hop", "f_dns", "f_send", "f_wait", "f_ret", "loop", "await_r1", "done"}

\* C21: the tool calls of one response are executed one after another in the
\* order received: the ids of the tool messages appended in that turn are the
\* ids of the response's list, in its order, and while the fetch of one call
\* runs every earlier call is answered and no later one has started.
C21_CallsInOrder ==
    InToolTurn =>
      /\ Len(messages) >= AnsweredSoFar
      /\ \A k \in 1..AnsweredSoFar :
           LET m == messages[Len(messages) - AnsweredSoFar + k] IN
           m.role = "tool" /\ m.id = toolCalls[k].id
      /\ \A k \in (AnsweredSoFar + 1)..Len(toolCalls) : ToolAnswers(toolCalls[k].id) = {}
      /\ pc \in {"f_hop", "f_dns", "f_send", "f_wait", "f_ret"} =>
           /\ toolCalls[ci].name = "http_get"
           /\ AnsweredSoFar = ci - 1

\* a fetch and a call to an unknown tool in one response, both answered
C21_Witness ==
    /\ pc = "loop"
    /\ lastReply.kind = "tools"
    /\ Len(toolCalls) = 2
    /\ toolCalls[1].name = "http_get"
    /\ toolCalls[2].name = "lookup"
    /\ messages[Len(messages) - 1].id = toolCalls[1].id
    /\ messages[Len(messages) - 1].result.ok
    /\ messages[Len(messages)].id = toolCalls[2].id

\* the error kinds of a failed fetch
FetchFailureKinds ==
    {"invalid_url", "unsupported_protocol", "blocked_host", "private_ip_blocked",
     "too_many_redirects", "FetchError", "AbortError", "TypeError"}

\* C22: a fetch that fails (bad url, scheme, blocked host, private address,
\* too many redirects, transport error, the 12 s abort) returns a result with
\* ok false and an error; the loop appends it as the call's tool message and
\* goes on, so no request ends while or because a fetch failed.
C22_FailuresAreReturned ==
    /\ pc = "f_ret" =>
         /\ result # NoResult
         /\ lastResp = NoResp =>
              /\ ~result.ok
              /\ result.status = 0
              /\ result.error \in FetchFailureKinds
    /\ (pc = "done" /\ lastReply.kind = "tools" /\ response.status # 200) =>
         /\ toolCalls[ci].args = "null"
         /\ nreq = 0
         /\ result = NoResult
    /\ (InToolTurn /\ pc \in {"loop", "await_r1"}) =>
         \A k \in DOMAIN toolCalls :
           /\ Cardinality(ToolAnswers(toolCalls[k].id)) = 1
           /\ \A m \in AnswersTo(k) :
                (toolCalls[k].name = "http_get" /\ ~m.result.ok /\ m.result.status = 0) =>
                  m.result.error \in FetchFailureKinds

\* a fetch aborted in flight, its failure in the history of the next request
C22_Witness ==
    /\ pc = "await_r1"
    /\ nMain = 2
    /\ toolCalls[1].name = "http_get"
    /\ messages[Len(messages)] = ToolMsg(toolCalls[Len(toolCalls)].id, Failure("AbortError"))

\* C23: a hop in which both lookups yield no address is treated as safe and
\* safeHttpGet goes on to call fetch for it instead of returning
\* private_ip_blocked; a name with at least one private address among its
\* answers is never passed as safe.
C23_EmptyAnswerIsSafe ==
    /\ (dnsChecked.done /\ dnsChecked.hop = hops /\ dnsChecked.ips = <<>>) =>
         /\ dnsChecked.safe
         /\ result.error # "private_ip_blocked"
         /\ pc = "f_send" \/ nreq = hops + 1
         /\ pc = "f_wait" => lastReq.hop = hops /\ lastReq.dns = dnsChecked
    /\ (dnsChecked.done /\ \E i \in DOMAIN dnsChecked.ips : PrivateRange(dnsChecked.ips[i])) =>
         /\ ~dnsChecked.safe
         /\ dnsChecked.ips # <<>>

\* a redirect to a name without any address: the request to it is sent
C23_Witness ==
    /\ pc = "f_wait"
    /\ hops = 1
    /\ lastReq.hop = 1
    /\ lastReq.dns.done
    /\ lastReq.dns.ips = <<>>
    /\ lastReq.host = CdnHost

\* C24: a completion call that throws, or any other exception inside the
\* handler, ends the request with one response: status 500, error "server
\* error", a detail of at most 500 characters; nothing is retried and no
\* outbound call follows.
C24_ExceptionIs500 ==
    /\ lastReply.kind = "throw" =>
         /\ pc = "done"
         /\ response.status = 500
         /\ response.kind = "error"
         /\ response.error = "server error"
         /\ response.detailLen <= 500
         /\ response.detailLen = Min(lastReply.len, 500)
         /\ nMain + nCorr >= 1
         /\ nreq = 0
    /\ (pc = "done" /\ lastReply.kind = "tools" /\ response.status # 200) =>
         /\ response.status = 500
         /\ response.error = "server error"
         /\ response.detailLen <= 500
         /\ nreq = 0
    /\ response.error = "server error" => pc = "done" /\ response.status = 500

\* the corrective request throws with a text longer than the cap
C24_Witness ==
    /\ pc = "done"
    /\ lastReply.kind = "throw"
    /\ lastReply.len = 501
    /\ nCorr = 1
    /\ response.detailLen = 500

\* the tool messages of the history
ToolMessages == {i \in DOMAIN messages : messages[i].role = "tool"}

\* C25: the loop stops at the first completion response without tool calls:
\* when it is the k-th response, k main requests have been made (the k - 1
\* before it each answered with tool calls), none is made afterwards, and no
\* tool runs after it.
C25_StopsAtFirstFinal ==
    lastReply.kind = "final" =>
      /\ pc \in {"await_r2", "done"}
      /\ nMain = step + 1
      /\ nMain >= 1
      /\ nMain <= 8
      /\ lastCompl.kind = "main" <=> nCorr = 0
      /\ Cardinality(ToolMessages) = Len(issued)
      /\ step = 0 <=> issued = <<>>
      /\ nreq = 0
      /\ result = NoResult

\* one response with tool calls, then a final answer: two turns
C25_Witness ==
    /\ pc = "done"
    /\ lastReply.kind = "final"
    /\ nMain = 2
    /\ step = 1
    /\ nCorr = 0
    /\ Len(issued) = 2
    /\ response.kind = "json"

\* C26: a redirect is never followed to a Location that resolves to a scheme
\* other than http or https, or that forms no URL: the checks run again in
\* the next hop and the call returns unsupported_protocol (or the error of
\* the failed resolution) with no request sent to the target.
C26_BadRedirectNotFollowed ==
    /\ pc \in {"f_dns", "f_send", "f_wait"} => url.valid /\ url.scheme \in {"http:", "https:"}
    /\ (hops < MaxHops /\ pc # "f_hop" /\ (~url.valid \/ url.scheme \notin {"http:", "https:"})) =>
         /\ pc = "f_ret"
         /\ result = Failure(IF url.valid THEN "unsupported_protocol" ELSE "invalid_url")
         /\ nreq = hops
         /\ lastReq.hop < hops
         /\ dnsChecked = NoCheck
    /\ result.error = "TypeError" =>
         /\ pc = "f_ret"
         /\ nreq = hops + 1
         /\ lastReq.hop = hops
         /\ url.scheme \in {"http:", "https:"}

\* a redirect to a file: url, refused at the second hop
C26_Witness ==
    /\ pc = "f_ret"
    /\ hops = 1
    /\ url.scheme = "file:"
    /\ result.error = "unsupported_protocol"
    /\ nreq = 1
    /\ lastReq.hop = 0

\* the answer to the last request the budget allows has come, with tool calls
LastTurn == lastReply.kind = "tools" /\ nMain = StepBudget /\ pc # "await_r1"

\* C27: when the last response the budget allows (the 8th) carries tool
\* calls, they are executed and answered in the history, no completion
\* request follows, and the request ends with the fallback envelope.
C27_LastTurnNeverSubmitted ==
    /\ nMain <= StepBudget
    /\ pc = "await_r1" => step < StepBudget
    /\ variant = "part_000" => StepBudget = 8
    /\ LastTurn =>
         /\ pc \in {"tools", "f_hop", "f_dns", "f_send", "f_wait", "f_ret", "loop", "done"}
         /\ step = StepBudget <=> (pc \in {"loop", "done"} /\ response.status \in {0, 200})
         /\ nCorr = 0
         /\ lastCompl = mainRequest
         /\ pc = "loop" => step = StepBudget
         /\ (pc = "loop" \/ (pc = "done" /\ response.status = 200)) =>
              /\ Len(messages) >= Len(toolCalls)
              /\ \A k \in DOMAIN toolCalls :
                   LET m == messages[Len(messages) - Len(toolCalls) + k] IN
                   m.role = "tool" /\ m.id = toolCalls[k].id
         /\ (pc = "done" /\ response.status = 200) =>
              /\ response.kind = "fallback"
              /\ response.envelope = Fallback(query)
              /\ finalJson = JNull

\* eight responses with tool calls, the fetch of the eighth answered in the
\* history of a request that ends with the fallback
C27_Witness ==
    /\ pc = "done"
    /\ variant = "part_000"
    /\ nMain = 8
    /\ step = 8
    /\ lastReply.kind = "tools"
    /\ toolCalls[Len(toolCalls)].name = "http_get"
    /\ messages[Len(messages)].role = "tool"
    /\ messages[Len(messages)].result.ok
    /\ response.kind = "fallback"

====
